---------------------------- MODULE Spec2Model ----------------------------
(***************************************************************************)
(* A model of the data-simulator engine: the generators of                 *)
(* data_generator.py (random walk, step sequence, order events, sum        *)
(* aggregate), their bounded histories and locks, and the Registry         *)
(* (DataObjectManager) that builds them from the configuration.            *)
(*                                                                         *)
(* Threads are explicit.  "main" runs DataObjectManager.__init__; the      *)
(* workers stand for the callers of update() that exist once the Registry  *)
(* is built (a generator's background loop, a manual trigger).  Every      *)
(* `with self.lock:` block is a lock acquisition followed by the           *)
(* statements of the block, so that a reader which ignored the lock would  *)
(* see the states in between.                                              *)
(***************************************************************************)
EXTENDS Integers, Sequences, FiniteSets, TLC

(* ------------------------------ bounds -------------------------------- *)

\* update() calls that concurrent callers may begin after construction
MaxUpdates == 2
\* update() calls that a single caller may begin after construction
MaxSeqUpdates == 4
\* the clock (time.time(), datetime.now()) runs from 0 to MaxTime
MaxTime == 1
\* the counts asked of a history accessor lie in -MaxCount..MaxCount
MaxCount == 1
\* the requests to the facade and direct history reads of a behaviour
MaxOps == 2
\* the start(), stop(), start_all() and stop_all() calls of a behaviour
MaxLifeOps == 3

(* --------------------------- Python values ---------------------------- *)

\* float('inf') of the default min_value / max_value
Inf == 99

\* A Python value as the generators store it: None, a number, or the dict
\* of an order.  fmt is "" while power_demand is the number pd, and the unit
\* once power_demand has been formatted as the string "<pd> (<unit>)".
None == [ty |-> "none", n |-> 0, order_id |-> 0, time |-> 0, location |-> "", pd |-> 0, fmt |-> ""]
Num(x) == [None EXCEPT !.ty = "num", !.n = x]
OrderData(id, tm, where, demand) ==
    [ty |-> "dict", n |-> 0, order_id |-> id, time |-> tm, location |-> where,
     pd |-> demand, fmt |-> ""]

\* isinstance(value, (int, float))
IsNumber(v) == v.ty = "num"

\* a DataPoint stamped by a clock that runs backwards
DataPointBackdated(v, clock) == [value |-> v, timestamp |-> 0 - clock]

\* DataPoint(value): the timestamp defaults to datetime.now()
DataPoint(v, clock) == [value |-> v, timestamp |-> clock]

\* DataPoint.to_dict(): isoformat() of the timestamp, here the pair
\* <<"iso", timestamp>>, a value of another type than the timestamp
ToDict(p) == [value |-> p.value, timestamp |-> <<"iso", p.timestamp>>]

\* Python's s[start:] for a list s
PySliceFrom(s, start) ==
    LET n  == Len(s)
        lo == IF start < 0 THEN (IF n + start < 0 THEN 0 ELSE n + start)
              ELSE (IF start > n THEN n ELSE start)
    IN  SubSeq(s, lo + 1, n)

Min2(a, b) == IF a <= b THEN a ELSE b
Max2(a, b) == IF a >= b THEN a ELSE b

Last(s) == s[Len(s)]

Range(s) == {s[i] : i \in 1..Len(s)}

(* --------------------------- configuration ---------------------------- *)

Names == {"A", "B", "C", "S", "T", "X", "Y", "Z", "W"}

\* One entry of the "objects" section with the defaults the constructors
\* apply through config.get(key, default).
DefaultConfig(nm, ty) ==
    [name |-> nm, data_type |-> ty,
     history_limit |-> IF ty = "order" THEN 20 ELSE 200,
     base_value |-> 0, update_range |-> <<-1, 1>>,
     min_value |-> -Inf, max_value |-> Inf,
     values |-> <<0>>, dwell_time |-> 1, loop |-> TRUE,
     order_id_base |-> 1000000000, id_increment_range |-> <<1, 10>>,
     locations |-> <<"Beijing", "Shanghai", "Shenzhen", "Chengdu">>,
     power_demand_range |-> <<100, 1000>>, unit |-> "",
     interval_range |-> <<5, 30>>,
     source_objects |-> <<>>]

RandomCfg(nm, base, range, lo, hi, limit) ==
    [DefaultConfig(nm, "random") EXCEPT !.base_value = base, !.update_range = range,
        !.min_value = lo, !.max_value = hi, !.history_limit = limit]

StepCfg(nm, vals, dwell, lp, limit) ==
    [DefaultConfig(nm, "step") EXCEPT !.values = vals, !.dwell_time = dwell,
        !.loop = lp, !.history_limit = limit]

OrderCfg(nm, base, inc, locs, demand, u, limit) ==
    [DefaultConfig(nm, "order") EXCEPT !.order_id_base = base,
        !.id_increment_range = inc, !.locations = locs,
        !.power_demand_range = demand, !.unit = u, !.history_limit = limit]

SumCfg(nm, sources, limit) ==
    [DefaultConfig(nm, "sum") EXCEPT !.source_objects = sources, !.history_limit = limit]

\* The configurations of single generators the model is run on.
GeneratorConfigs ==
    { <<RandomCfg("A", 0, <<-1, 1>>, 0, 1, 2)>>,
      <<RandomCfg("A", 0, <<1, 1>>, 0, 3, 2)>>,
      <<RandomCfg("A", 0, <<0, 0>>, 1, 0, 1)>>,
      <<RandomCfg("A", 0, <<0, 1>>, 0, 1, 0)>>,
      <<StepCfg("A", <<1, 2, 3>>, 0, FALSE, 3)>>,
      <<StepCfg("A", <<1, 1, 2>>, 0, TRUE, 2)>>,
      <<StepCfg("A", <<1, 2>>, 1, TRUE, 1)>>,
      <<StepCfg("A", <<>>, 1, TRUE, 2)>>,
      <<OrderCfg("A", 1000, <<1, 2>>, <<"bj">>, <<100, 100>>, "kW", 2)>>,
      <<OrderCfg("A", 1000, <<0, 1>>, <<"bj">>, <<100, 100>>, "", 2)>>,
      <<OrderCfg("A", 1000, <<1, 1>>, <<"bj", "sh">>, <<100, 100>>, "kW", 20)>>,
      <<OrderCfg("A", 1000, <<2, 1>>, <<"bj">>, <<100, 100>>, "", 2)>>,
      <<RandomCfg("A", 10, <<0, 1>>, -Inf, Inf, 1), SumCfg("S", <<"A", "W">>, 1)>> }

\* Aggregates over leaf generators.
AggregateConfigs ==
    { <<RandomCfg("A", 10, <<0, 0>>, -Inf, Inf, 1),
        OrderCfg("B", 1000, <<1, 1>>, <<"bj">>, <<100, 100>>, "", 1),
        RandomCfg("C", 5, <<0, 0>>, -Inf, Inf, 1),
        SumCfg("S", <<"A", "B", "C">>, 2)>>,
      <<RandomCfg("A", 10, <<0, 1>>, -Inf, Inf, 1),
        StepCfg("C", <<5, 6, 7>>, 0, FALSE, 1),
        SumCfg("S", <<"A", "W", "C">>, 1)>>,
      <<OrderCfg("A", 1000, <<2, 1>>, <<"bj">>, <<100, 100>>, "", 1),
        OrderCfg("B", 1000, <<1, 1>>, <<"bj">>, <<100, 100>>, "", 1),
        StepCfg("C", <<>>, 1, TRUE, 1),
        SumCfg("S", <<"A", "B", "C", "W">>, 2),
        SumCfg("T", <<>>, 2)>> }

\* Registries with aggregates over aggregates: a cycle X -> Y -> Z -> X in
\* each order of the configuration, a cycle fed by a leaf, a shared dependency,
\* an aggregate of itself, and entries whose construction fails.
Leaves ==
    <<RandomCfg("A", 10, <<0, 1>>, -Inf, Inf, 2),
      StepCfg("B", <<1, 2>>, 0, TRUE, 2),
      OrderCfg("C", 1000, <<1, 1>>, <<"bj">>, <<100, 100>>, "", 2)>>

CycleConfigs ==
    { Leaves \o <<SumCfg("X", <<"Y">>, 2), SumCfg("Y", <<"Z">>, 2),
                  SumCfg("Z", <<"X">>, 2), SumCfg("W", <<"A", "B">>, 2)>>,
      Leaves \o <<SumCfg("W", <<"A", "B">>, 2), SumCfg("Z", <<"X">>, 2),
                  SumCfg("Y", <<"Z">>, 2), SumCfg("X", <<"Y">>, 2)>>,
      <<SumCfg("Y", <<"Z">>, 2), SumCfg("X", <<"Y">>, 2)>> \o Leaves
          \o <<SumCfg("Z", <<"X">>, 2), SumCfg("W", <<"A", "B">>, 2)>>,
      Leaves \o <<SumCfg("X", <<"Y", "A">>, 2), SumCfg("Y", <<"Z">>, 2),
                  SumCfg("Z", <<"X">>, 2), SumCfg("W", <<"X", "A">>, 2)>> }

RegistryConfigs ==
    CycleConfigs \cup
    { Leaves \o <<SumCfg("X", <<"Y", "Z">>, 2), SumCfg("Y", <<"W">>, 2),
                  SumCfg("Z", <<"W">>, 2), SumCfg("W", <<"A", "B">>, 2)>>,
      Leaves \o <<SumCfg("S", <<"S", "A">>, 2), SumCfg("T", <<"S", "C">>, 2)>>,
      Leaves \o <<SumCfg("X", <<"Y", "A">>, 2), SumCfg("Y", <<"Z", "T">>, 2),
                  SumCfg("Z", <<"B">>, 2)>>,
      <<SumCfg("Z", <<"Y", "X">>, 2), SumCfg("Y", <<"X">>, 2)>> \o Leaves
          \o <<SumCfg("X", <<"C">>, 2)>>,
      <<DefaultConfig("X", "bogus"),
        OrderCfg("Y", 1000, <<2, 1>>, <<"bj">>, <<100, 100>>, "", 2),
        OrderCfg("Z", 1000, <<1, 1>>, <<>>, <<100, 100>>, "", 2),
        RandomCfg("W", 5, <<0, 0>>, 8, 3, 2)>>
          \o Leaves \o <<SumCfg("S", <<"X", "A", "Y", "B">>, 2)>> }

VARIABLES
    objects_config,   \* ConfigManager.get_objects_config(), in dict order
    objects,          \* DataObjectManager.objects: the names registered
    mlock,            \* DataObjectManager.lock: its holder, or "free"
    cls,              \* the class of the generator built for a name
    history,          \* generator.history
    current_value,    \* generator.current_value
    lock,             \* generator.lock: its holder, or "free"
    current_index,    \* StepDataGenerator.current_index
    last_change_time, \* StepDataGenerator.last_change_time
    current_order_id, \* OrderDataGenerator.current_order_id
    pc,               \* each thread's position
    obj,              \* the generator a thread's call is on
    cont,             \* where a thread goes on when its update() returns
    loc,              \* a thread's local variables
    now,              \* the clock
    ret,              \* what the last accessor call returned
    creation_order,   \* _create_objects_from_config: creation_order
    sum_generators,   \* _create_objects_from_config: sum_generators
    mi,               \* _create_objects_from_config: position of a loop
    reported,         \* the cycles check_dependencies has printed
    appended,         \* history: every point ever appended, per generator
    committed,        \* history: generator.history at the last lock release
    nUpd,             \* history: update() calls begun by the workers
    running,          \* generator.running
    thread,           \* generator.thread: the thread last started, or "None"
    next_update_time, \* OrderDataGenerator.next_update_time
    first_updates,    \* history: the first_update() calls made on a generator
    stops,            \* history: the stop() calls on a generator that returned
    nOps,             \* history: start(), stop() and facade calls begun
    last_due          \* history: the time read by the order loop iteration that
                      \* last called update(), or -1

ghostVars == <<first_updates, stops, nOps, last_due>>
lifeVars == <<running, thread, next_update_time, ghostVars>>

vars == <<objects_config, objects, mlock, cls, history, current_value, lock,
          current_index, last_change_time, current_order_id, pc, obj, cont, loc,
          now, ret, creation_order, sum_generators, mi, reported, appended,
          committed, nUpd, lifeVars>>

Threads == {"main", "ctl", "t1", "t2", "r1", "l1", "l2"}
\* the threads that start() can create
LoopThreads == {"l1", "l2"}
Workers == {"t1", "t2"}

\* objects_config[name]
ConfigOf(nm) == CHOOSE c \in Range(objects_config) : c.name = nm

Configured == {c.name : c \in Range(objects_config)}

\* a count argument: absent (None), or an integer
NoCount == [given |-> FALSE, n |-> 0]
Count(n) == [given |-> TRUE, n |-> n]
CountArgs == {NoCount} \cup {Count(n) : n \in (0 - MaxCount)..MaxCount}

Loc0 == [change |-> 0, v |-> None, idx |-> 0, tm |-> 0, total |-> 0, count |-> 0,
         k |-> 0, o |-> "", seen |-> <<>>, out |-> "", op |-> "", arg |-> NoCount,
         t0 |-> 0]

NoRet == [op |-> "", obj |-> "", value |-> None, timestamp |-> <<"None">>, list |-> <<>>,
          during |-> FALSE, count |-> NoCount]


(* ------------------------- the initial state -------------------------- *)

\* DataObjectManager.__init__ up to the call of _create_objects_from_config:
\* an empty Registry, nothing built, the clock at 0.
InitWith(configs) ==
    /\ objects_config \in configs
    /\ objects = {}
    /\ mlock = "free"
    /\ cls = [n \in Names |-> "none"]
    /\ history = [n \in Names |-> <<>>]
    /\ current_value = [n \in Names |-> Num(0)]
    /\ lock = [n \in Names |-> "free"]
    /\ current_index = [n \in Names |-> 0]
    /\ last_change_time = [n \in Names |-> 0]
    /\ current_order_id = [n \in Names |-> 0]
    /\ pc = [t \in Threads |-> IF t = "main" THEN "m_start" ELSE "idle"]
    /\ obj = [t \in Threads |-> ""]
    /\ cont = [t \in Threads |-> "idle"]
    /\ loc = [t \in Threads |-> Loc0]
    /\ now = 0
    /\ ret = NoRet
    /\ creation_order = <<>>
    /\ sum_generators = <<>>
    /\ mi = 0
    /\ reported = <<>>
    /\ appended = [n \in Names |-> <<>>]
    /\ committed = [n \in Names |-> <<>>]
    /\ nUpd = 0
    /\ running = [n \in Names |-> FALSE]
    /\ thread = [n \in Names |-> "None"]
    /\ next_update_time = [n \in Names |-> 0]
    /\ first_updates = [n \in Names |-> 0]
    /\ stops = [n \in Names |-> 0]
    /\ nOps = 0
    /\ last_due = [n \in Names |-> 0 - 1]

Init == InitWith(GeneratorConfigs)

regVars == <<objects_config, objects, mlock, creation_order, sum_generators, mi, reported>>
genVars == <<cls, history, current_value, lock, current_index, last_change_time,
             current_order_id>>

\* time passes
Tick ==
    /\ now < MaxTime
    /\ now' = now + 1
    /\ UNCHANGED <<regVars, genVars, pc, obj, cont, loc, ret, appended, committed, nUpd, lifeVars>>

\* update() returns to its caller
Return(t, outcome) ==
    /\ pc' = [pc EXCEPT ![t] = cont[t]]
    /\ loc' = [loc EXCEPT ![t] = [Loc0 EXCEPT !.out = outcome, !.t0 = loc[t].t0]]

\* update() raises
Raise(t) ==
    /\ pc' = [pc EXCEPT ![t] = "exc"]
    /\ loc' = [loc EXCEPT ![t] = [Loc0 EXCEPT !.t0 = loc[t].t0, !.out = "raised"]]

(* ----------------------- the history buffer --------------------------- *)

\* data_point = DataPoint(value); self.history.append(data_point)
AppendPoint(t) ==
    LET g == obj[t] IN
    /\ pc[t] = "append"
    /\ lock[g] = t
    /\ history' = [history EXCEPT ![g] = Append(@, DataPoint(loc[t].v, now))]
    /\ appended' = [appended EXCEPT ![g] = Append(@, DataPoint(loc[t].v, now))]
    /\ pc' = [pc EXCEPT ![t] = "trim"]
    /\ UNCHANGED <<regVars, cls, current_value, lock, current_index, last_change_time,
                   current_order_id, obj, cont, loc, now, ret, committed, nUpd, lifeVars>>

\* a trim that lets the history grow one point past the limit
TrimmedLate(h, limit) == IF Len(h) > limit + 1 THEN PySliceFrom(h, -limit) ELSE h

\* if len(self.history) > self.history_limit:
\*     self.history = self.history[-self.history_limit:]
Trimmed(h, limit) == IF Len(h) > limit THEN PySliceFrom(h, -limit) ELSE h

\* the trim that ends the `with self.lock:` block of update()
TrimHistory(t) ==
    LET g == obj[t] IN
    /\ pc[t] = "trim"
    /\ lock[g] = t
    /\ history' = [history EXCEPT ![g] = Trimmed(@, ConfigOf(g).history_limit)]
    /\ lock' = [lock EXCEPT ![g] = "free"]
    /\ committed' = [committed EXCEPT ![g] = history'[g]]
    /\ Return(t, "appended")
    /\ UNCHANGED <<regVars, cls, current_value, current_index, last_change_time,
                   current_order_id, obj, cont, now, ret, appended, nUpd, lifeVars>>

(* ----------------------- RandomDataGenerator -------------------------- *)

\* max(self.min_value, min(self.max_value, new_value))
Clamp(c, x) == Max2(c.min_value, Min2(c.max_value, x))

\* random.uniform(a, b): a number between a and b, whichever is the larger
Uniform(a, b) == Min2(a, b)..Max2(a, b)

\* update(), to the end of its first `with self.lock:` block: the change is
\* drawn, the value to start from is read under the lock, new_value is computed
RandomRead(t) ==
    LET g == obj[t]
        c == ConfigOf(g)
    IN
    /\ pc[t] = "upd"
    /\ cls[g] = "random"
    /\ lock[g] = "free"
    /\ \E change \in Uniform(c.update_range[1], c.update_range[2]) :
          LET start == IF history[g] # <<>> THEN current_value[g].n ELSE c.base_value
          IN  loc' = [loc EXCEPT ![t] = [Loc0 EXCEPT !.t0 = loc[t].t0, !.change = change,
                                                  !.v = Num(Clamp(c, start + change))]]
    /\ pc' = [pc EXCEPT ![t] = "r_lock"]
    /\ UNCHANGED <<regVars, genVars, obj, cont, now, ret, appended, committed, nUpd, lifeVars>>

\* update(), the second `with self.lock:` block: self.current_value = new_value
RandomWrite(t) ==
    LET g == obj[t] IN
    /\ pc[t] = "r_lock"
    /\ lock[g] = "free"
    /\ lock' = [lock EXCEPT ![g] = t]
    /\ current_value' = [current_value EXCEPT ![g] = loc[t].v]
    /\ pc' = [pc EXCEPT ![t] = "append"]
    /\ UNCHANGED <<regVars, cls, history, current_index, last_change_time,
                   current_order_id, obj, cont, loc, now, ret, appended, committed, nUpd, lifeVars>>

(* ------------------------ StepDataGenerator --------------------------- *)

\* update(): `if not self.values: return`, then current_time = time.time() and
\* the test current_time - self.last_change_time >= self.dwell_time
StepCheckDwell(t) ==
    LET g == obj[t]
        c == ConfigOf(g)
    IN
    /\ pc[t] = "upd"
    /\ cls[g] = "step"
    /\ IF c.values = <<>>
       THEN Return(t, "noop")
       ELSE /\ loc' = [loc EXCEPT ![t] = [Loc0 EXCEPT !.t0 = loc[t].t0, !.tm = now]]
            /\ pc' = [pc EXCEPT ![t] =
                        IF now - last_change_time[g] >= c.dwell_time
                        THEN "s_time" ELSE "s_value"]
    /\ UNCHANGED <<regVars, genVars, obj, cont, now, ret, appended, committed, nUpd, lifeVars>>

\* self.last_change_time = current_time
StepSetTime(t) ==
    LET g == obj[t] IN
    /\ pc[t] = "s_time"
    /\ last_change_time' = [last_change_time EXCEPT ![g] = loc[t].tm]
    /\ pc' = [pc EXCEPT ![t] = "s_index"]
    /\ UNCHANGED <<regVars, cls, history, current_value, lock, current_index,
                   current_order_id, obj, cont, loc, now, ret, appended, committed, nUpd, lifeVars>>

\* if self.current_index < len(self.values) - 1: (the increment follows)
\* elif self.loop: self.current_index = 0
StepCheckIndex(t) ==
    LET g == obj[t]
        c == ConfigOf(g)
    IN
    /\ pc[t] = "s_index"
    /\ IF current_index[g] < Len(c.values) - 1
       THEN /\ pc' = [pc EXCEPT ![t] = "s_load"]
            /\ UNCHANGED current_index
       ELSE /\ pc' = [pc EXCEPT ![t] = "s_value"]
            /\ current_index' = [current_index EXCEPT ![g] = IF c.loop THEN 0 ELSE @]
    /\ UNCHANGED <<regVars, cls, history, current_value, lock, last_change_time,
                   current_order_id, obj, cont, loc, now, ret, appended, committed, nUpd, lifeVars>>

\* self.current_index += 1, the read of the attribute
StepLoadIndex(t) ==
    LET g == obj[t] IN
    /\ pc[t] = "s_load"
    /\ loc' = [loc EXCEPT ![t].idx = current_index[g]]
    /\ pc' = [pc EXCEPT ![t] = "s_store"]
    /\ UNCHANGED <<regVars, genVars, obj, cont, now, ret, appended, committed, nUpd, lifeVars>>

\* self.current_index += 1, the write of the attribute
StepStoreIndex(t) ==
    LET g == obj[t] IN
    /\ pc[t] = "s_store"
    /\ current_index' = [current_index EXCEPT ![g] = loc[t].idx + 1]
    /\ pc' = [pc EXCEPT ![t] = "s_value"]
    /\ UNCHANGED <<regVars, cls, history, current_value, lock, last_change_time,
                   current_order_id, obj, cont, loc, now, ret, appended, committed, nUpd, lifeVars>>

\* current_value = self.values[self.current_index]: an IndexError when the
\* index is past the end
StepValue(t) ==
    LET g == obj[t]
        c == ConfigOf(g)
    IN
    /\ pc[t] = "s_value"
    /\ IF current_index[g] < Len(c.values)
       THEN /\ loc' = [loc EXCEPT ![t].v = Num(c.values[current_index[g] + 1])]
            /\ pc' = [pc EXCEPT ![t] = "s_lock"]
       ELSE Raise(t)
    /\ UNCHANGED <<regVars, genVars, obj, cont, now, ret, appended, committed, nUpd, lifeVars>>

\* a comparison that takes every value for a new one
StepChangedAlways(h, v) == TRUE

\* if not self.history or self.history[-1].value != current_value
StepChanged(h, v) == h = <<>> \/ Last(h).value # v

\* the `with self.lock:` block: the point is recorded only when the value
\* differs from the last one recorded
StepRecord(t) ==
    LET g == obj[t] IN
    /\ pc[t] = "s_lock"
    /\ lock[g] = "free"
    /\ IF StepChanged(history[g], loc[t].v)
       THEN /\ lock' = [lock EXCEPT ![g] = t]
            /\ current_value' = [current_value EXCEPT ![g] = loc[t].v]
            /\ pc' = [pc EXCEPT ![t] = "append"]
            /\ UNCHANGED loc
       ELSE /\ Return(t, "skipped")
            /\ UNCHANGED <<lock, current_value>>
    /\ UNCHANGED <<regVars, cls, history, current_index, last_change_time,
                   current_order_id, obj, cont, now, ret, appended, committed, nUpd, lifeVars>>

(* ------------------------ OrderDataGenerator -------------------------- *)

\* random.randint(a, b): a ValueError when a > b
RandInt(a, b) == a..b

\* an id that is not advanced
NextOrderIdStale(id, id_increment) == id

\* self.current_order_id += id_increment
NextOrderId(id, id_increment) == id + id_increment

\* update(): the whole method is one `with self.lock:` block.  The id is
\* advanced first, so it stays advanced when a later draw raises.
OrderUpdate(t) ==
    LET g == obj[t]
        c == ConfigOf(g)
        ids == RandInt(c.id_increment_range[1], c.id_increment_range[2])
        demands == RandInt(c.power_demand_range[1], c.power_demand_range[2])
    IN
    /\ pc[t] = "upd"
    /\ cls[g] = "order"
    /\ lock[g] = "free"
    /\ IF ids = {}
       THEN /\ Raise(t)
            /\ UNCHANGED <<lock, current_order_id>>
       ELSE \E id_increment \in ids :
            /\ current_order_id' = [current_order_id EXCEPT ![g] =
                                       NextOrderId(@, id_increment)]
            /\ IF c.locations = <<>> \/ demands = {}
               THEN /\ Raise(t)
                    /\ UNCHANGED lock
               ELSE \E where \in Range(c.locations), demand \in demands :
                    /\ loc' = [loc EXCEPT ![t] = [Loc0 EXCEPT !.t0 = loc[t].t0, !.v =
                                 OrderData(current_order_id'[g], now, where, demand)]]
                    /\ lock' = [lock EXCEPT ![g] = t]
                    /\ pc' = [pc EXCEPT ![t] = "append"]
    /\ UNCHANGED <<regVars, cls, history, current_value, current_index, last_change_time,
                   obj, cont, now, ret, appended, committed, nUpd, lifeVars>>

(* ------------------------- SumDataGenerator --------------------------- *)

\* get_current_data() of BaseDataGenerator and SumDataGenerator: the value and
\* the timestamp of self.history[-1], or None for both
CurrentData(h) ==
    IF h = <<>> THEN [value |-> None, timestamp |-> <<"None">>]
    ELSE ToDict(Last(h))

\* an update() that takes self.lock before it reads its sources
HeldFromTheStart(holder, t) == t

\* SumDataGenerator.update() reads its sources holding no lock: self.lock is
\* taken only for the write at the end
HeldWhileSumming(holder, t) == holder

\* update(): `if not self.object_manager or not self.source_objects: return`,
\* then total = 0.0 and count = 0
SumBegin(t) ==
    LET g == obj[t]
        c == ConfigOf(g)
    IN
    /\ pc[t] = "upd"
    /\ cls[g] = "sum"
    /\ IF c.source_objects = <<>>
       THEN Return(t, "noop") /\ UNCHANGED lock
       ELSE /\ loc' = [loc EXCEPT ![t] = [Loc0 EXCEPT !.k = 1, !.t0 = loc[t].t0]]
            /\ pc' = [pc EXCEPT ![t] = "u_lookup"]
            /\ lock' = [lock EXCEPT ![g] = HeldWhileSumming(@, t)]
    /\ UNCHANGED <<regVars, cls, history, current_value, current_index, last_change_time,
                   current_order_id, obj, cont, now, ret, appended, committed, nUpd,
                   lifeVars>>

\* obj = self.object_manager.get_object(name): under the Registry's lock
SumLookup(t) ==
    LET g == obj[t]
        c == ConfigOf(g)
        name == c.source_objects[loc[t].k]
    IN
    /\ pc[t] = "u_lookup"
    /\ mlock = "free"
    /\ IF name \in objects
       THEN /\ loc' = [loc EXCEPT ![t].o = name]
            /\ pc' = [pc EXCEPT ![t] = "u_read"]
       ELSE /\ loc' = [loc EXCEPT ![t].k = @ + 1, ![t].seen = Append(@, None)]
            /\ pc' = [pc EXCEPT ![t] =
                        IF loc[t].k < Len(c.source_objects) THEN "u_lookup" ELSE "u_record"]
    /\ UNCHANGED <<regVars, genVars, obj, cont, now, ret, appended, committed, nUpd, lifeVars>>

\* a test that counts every source with a value, numeric or not
CountsAnyValue(data) == data.value # None

\* whether a source's snapshot counts: a value that is not None and is a number
Counts(data) == data.value # None /\ IsNumber(data.value)

\* data = obj.get_current_data(), under the source's lock, and the addition
SumRead(t) ==
    LET g == obj[t]
        c == ConfigOf(g)
        src == loc[t].o
        data == CurrentData(history[src])
    IN
    /\ pc[t] = "u_read"
    /\ lock[src] = "free"
    /\ loc' = [loc EXCEPT ![t].k = @ + 1,
                          ![t].o = "",
                          ![t].seen = Append(@, data.value),
                          ![t].total = IF Counts(data) THEN @ + data.value.n ELSE @,
                          ![t].count = IF Counts(data) THEN @ + 1 ELSE @]
    /\ pc' = [pc EXCEPT ![t] =
                IF loc[t].k < Len(c.source_objects) THEN "u_lookup" ELSE "u_record"]
    /\ UNCHANGED <<regVars, genVars, obj, cont, now, ret, appended, committed, nUpd, lifeVars>>

\* a guard that lets a total of no source through
ContributedAlways(count) == TRUE

\* if count > 0:
Contributed(count) == count > 0

\* if count > 0: with self.lock: self.current_value = total
SumRecord(t) ==
    LET g == obj[t] IN
    /\ pc[t] = "u_record"
    /\ IF Contributed(loc[t].count)
       THEN /\ lock[g] = "free"
            /\ lock' = [lock EXCEPT ![g] = t]
            /\ current_value' = [current_value EXCEPT ![g] = Num(loc[t].total)]
            /\ loc' = [loc EXCEPT ![t].v = Num(loc[t].total)]
            /\ pc' = [pc EXCEPT ![t] = "append"]
       ELSE /\ Return(t, "skipped")
            /\ UNCHANGED <<lock, current_value>>
    /\ UNCHANGED <<regVars, cls, history, current_index, last_change_time,
                   current_order_id, obj, cont, now, ret, appended, committed, nUpd, lifeVars>>

(* ------------------------ the read accessors -------------------------- *)

\* history: whether some thread is inside update() of g
Updating(g) ==
    \E t \in Threads :
        obj[t] = g /\ pc[t] \notin {"idle", "built", "exc", "l_check", "l_due", "l_sleep",
                                    "l_dead", "l_died", "stop", "join"}

\* an accessor that does not take the lock
ReaderBarges(g) == TRUE

\* `with self.lock:` of an accessor: it is entered only while no update()
\* holds the generator's lock
ReaderEnters(g) == lock[g] = "free"

\* OrderDataGenerator: the copy of a record with power_demand formatted as
\* "<power_demand> (<unit>)" when a unit is configured
Formatted(v, unit) ==
    IF v.ty = "dict" THEN (IF unit # "" THEN [v EXCEPT !.fmt = unit] ELSE v)
    ELSE [None EXCEPT !.ty = "dict"]

\* get_current_data() of each class
GetCurrentData(g) ==
    /\ pc["main"] = "built"
    /\ g \in objects
    /\ ReaderEnters(g)
    /\ LET data == CurrentData(history[g])
           value == IF cls[g] = "order" /\ history[g] # <<>>
                    THEN Formatted(data.value, ConfigOf(g).unit)
                    ELSE data.value
       IN  ret' = [op |-> "current", obj |-> g, value |-> value,
                   timestamp |-> data.timestamp, list |-> <<>>,
                   during |-> Updating(g), count |-> NoCount]
    /\ UNCHANGED <<regVars, genVars, pc, obj, cont, loc, now, appended, committed, nUpd, lifeVars>>

\* get_history() of BaseDataGenerator and SumDataGenerator
GetHistory(g) ==
    /\ pc["main"] = "built"
    /\ g \in objects
    /\ cls[g] # "order"
    /\ ReaderEnters(g)
    /\ ret' = [op |-> "history", obj |-> g, value |-> None, timestamp |-> <<"None">>,
               list |-> [i \in 1..Len(history[g]) |-> ToDict(history[g][i])],
               during |-> Updating(g), count |-> NoCount]
    /\ UNCHANGED <<regVars, genVars, pc, obj, cont, loc, now, appended, committed, nUpd, lifeVars>>

(* ------------------------- DataObjectManager -------------------------- *)

\* non_sum_objects and sum_configs: the configuration by declared type, each
\* in the order of the configuration
non_sum_objects == SelectSeq(objects_config, LAMBDA c : c.data_type # "sum")
sum_configs == SelectSeq(objects_config, LAMBDA c : c.data_type = "sum")
SumNames == {c.name : c \in Range(sum_configs)}

\* a factory that knows one type more
SupportedAndBogus == {"random", "step", "order", "sum", "bogus"}

\* create_data_generator raises ValueError for any other data_type
Supported == {"random", "step", "order", "sum"}

\* the fields a constructor sets before it calls update()
Construct(n, ty) ==
    /\ cls' = [cls EXCEPT ![n] = ty]
    /\ history' = [history EXCEPT ![n] = <<>>]
    /\ current_value' = [current_value EXCEPT ![n] = Num(0)]
    /\ lock' = [lock EXCEPT ![n] = "free"]
    /\ current_index' = [current_index EXCEPT ![n] = 0]
    /\ last_change_time' = [last_change_time EXCEPT ![n] = IF ty = "step" THEN now ELSE @]
    /\ current_order_id' = [current_order_id EXCEPT ![n] =
                               IF ty = "order" THEN ConfigOf(n).order_id_base ELSE @]
    /\ running' = [running EXCEPT ![n] = FALSE]
    /\ thread' = [thread EXCEPT ![n] = "None"]
    /\ next_update_time' = [next_update_time EXCEPT ![n] = IF ty = "order" THEN now ELSE @]

\* _create_objects_from_config: `with self.lock:` of the first loop
StartCreate ==
    /\ pc["main"] = "m_start"
    /\ mlock = "free"
    /\ mlock' = "main"
    /\ mi' = 1
    /\ pc' = [pc EXCEPT !["main"] = "m_create"]
    /\ UNCHANGED <<objects_config, objects, creation_order, sum_generators, reported,
                   genVars, obj, cont, loc, now, ret, appended, committed, nUpd, lifeVars>>

\* the first loop: generator = create_data_generator(config, name, self).  The
\* constructor sets the fields and calls update(); an unsupported type raises
\* and the entry is passed over.
CreateNonSum ==
    /\ pc["main"] = "m_create"
    /\ mi <= Len(non_sum_objects)
    /\ LET c == non_sum_objects[mi] IN
       IF c.data_type \in Supported
       THEN /\ Construct(c.name, c.data_type)
            /\ pc' = [pc EXCEPT !["main"] = "upd"]
            /\ obj' = [obj EXCEPT !["main"] = c.name]
            /\ cont' = [cont EXCEPT !["main"] = "m_register"]
            /\ UNCHANGED mi
       ELSE /\ mi' = mi + 1
            /\ UNCHANGED <<genVars, running, thread, next_update_time, pc, obj, cont>>
    /\ UNCHANGED <<objects_config, objects, mlock, creation_order, sum_generators,
                   reported, loc, now, ret, appended, committed, nUpd, ghostVars>>

\* self.objects[name] = generator
Register ==
    /\ pc["main"] = "m_register"
    /\ objects' = objects \cup {obj["main"]}
    /\ mi' = mi + 1
    /\ pc' = [pc EXCEPT !["main"] = "m_create"]
    /\ UNCHANGED <<objects_config, mlock, creation_order, sum_generators, reported,
                   genVars, obj, cont, loc, now, ret, appended, committed, nUpd, lifeVars>>

\* `except Exception` of the first loop: the constructor raised, the
\* generator is dropped and the loop goes on
CreateFailed ==
    /\ pc["main"] = "exc"
    /\ cont["main"] = "m_register"
    /\ Construct(obj["main"], "none")
    /\ mi' = mi + 1
    /\ pc' = [pc EXCEPT !["main"] = "m_create"]
    /\ UNCHANGED <<objects_config, objects, mlock, creation_order, sum_generators,
                   reported, obj, cont, loc, now, ret, appended, committed, nUpd, ghostVars>>

\* the end of the first loop: the Registry's lock is released
EndCreate ==
    /\ pc["main"] = "m_create"
    /\ mi > Len(non_sum_objects)
    /\ mlock' = "free"
    /\ pc' = [pc EXCEPT !["main"] = "m_resolve"]
    /\ UNCHANGED <<objects_config, objects, creation_order, sum_generators, mi, reported,
                   genVars, obj, cont, loc, now, ret, appended, committed, nUpd, lifeVars>>

\* check_dependencies(sum_name, visited, path): the names to create before
\* sum_name and sum_name itself (result), and the cycles it printed (warned).
\* SourcesFrom is its `for source in sources:` loop from position i on; each
\* recursive call gets its own copy of visited and path.
\* (An intermediate result is bound as the one element of a set, so that it
\* is computed once however often it is used.)
RECURSIVE check_dependencies(_, _, _), SourcesFrom(_, _, _, _)

\* check_dependencies, were it to leave out an aggregate below which a cycle
\* was found
check_dependencies_dropping(sum_name, visited, path) ==
    IF sum_name \in visited
    THEN [result |-> <<>>, warned |-> <<Append(path, sum_name)>>]
    ELSE IF sum_name \notin SumNames
    THEN [result |-> <<>>, warned |-> <<>>]
    ELSE CHOOSE r \in
           { [result |-> IF sum_name \notin objects /\ below.warned = <<>>
                         THEN Append(below.result, sum_name) ELSE below.result,
              warned |-> below.warned] :
             below \in { SourcesFrom(ConfigOf(sum_name).source_objects, 1,
                                     visited \cup {sum_name}, Append(path, sum_name)) } } :
           TRUE

check_dependencies(sum_name, visited, path) ==
    IF sum_name \in visited
    THEN [result |-> <<>>, warned |-> <<Append(path, sum_name)>>]
    ELSE IF sum_name \notin SumNames
    THEN [result |-> <<>>, warned |-> <<>>]
    ELSE CHOOSE r \in
           { [result |-> IF sum_name \notin objects
                         THEN Append(below.result, sum_name) ELSE below.result,
              warned |-> below.warned] :
             below \in { SourcesFrom(ConfigOf(sum_name).source_objects, 1,
                                     visited \cup {sum_name}, Append(path, sum_name)) } } :
           TRUE

SourcesFrom(sources, i, visited, path) ==
    IF i > Len(sources) THEN [result |-> <<>>, warned |-> <<>>]
    ELSE CHOOSE r \in
           { [result |-> here.result \o rest.result,
              warned |-> here.warned \o rest.warned] :
             here \in { IF sources[i] \in SumNames /\ sources[i] \notin objects
                        THEN check_dependencies(sources[i], visited, path)
                        ELSE [result |-> <<>>, warned |-> <<>>] },
             rest \in { SourcesFrom(sources, i + 1, visited, path) } } :
           TRUE

\* `for dep in deps: if dep not in creation_order: creation_order.append(dep)`
\* a loop that puts the later names first
AddNewFront(order, deps) ==
    LET x == order \o deps IN [i \in 1..Len(x) |-> x[Len(x) + 1 - i]]

\* a loop that appends every dep, in creation_order already or not
AddAll(order, deps) == order \o deps

RECURSIVE AddNew(_, _)
AddNew(order, deps) ==
    IF deps = <<>> THEN order
    ELSE CHOOSE r \in
           { AddNew(IF Head(deps) \in Range(o) THEN o ELSE Append(o, Head(deps)), Tail(deps)) :
             o \in {order} } :
           TRUE

\* the loop `for name in sum_configs:` from position i on, with the creation
\* order and the warnings gathered so far
RECURSIVE ResolveFrom(_, _, _)
ResolveFrom(i, order, warned) ==
    IF i > Len(sum_configs) THEN [result |-> order, warned |-> warned]
    ELSE LET name == sum_configs[i].name IN
         IF name \in objects
         THEN ResolveFrom(i + 1, order, warned)
         ELSE CHOOSE r \in
                { ResolveFrom(i + 1, o, w) :
                  o \in { AddNew(order, check_dependencies(name, {}, <<>>).result) },
                  w \in { warned \o check_dependencies(name, {}, <<>>).warned } } :
                TRUE

\* the dependency analysis, then `with self.lock:` of the second loop
Resolve ==
    /\ pc["main"] = "m_resolve"
    /\ mlock = "free"
    /\ \E r \in { ResolveFrom(1, <<>>, <<>>) } :
          /\ creation_order' = r.result
          /\ reported' = r.warned
    /\ mlock' = "main"
    /\ mi' = 1
    /\ pc' = [pc EXCEPT !["main"] = "m_sums"]
    /\ UNCHANGED <<objects_config, objects, sum_generators,
                   genVars, obj, cont, loc, now, ret, appended, committed, nUpd, lifeVars>>

\* the second loop: a SumDataGenerator is constructed (no update) and registered
CreateSum ==
    /\ pc["main"] = "m_sums"
    /\ mi <= Len(creation_order)
    /\ LET name == creation_order[mi] IN
       /\ Construct(name, "sum")
       /\ objects' = objects \cup {name}
       /\ sum_generators' = Append(sum_generators, name)
    /\ mi' = mi + 1
    /\ UNCHANGED <<objects_config, mlock, creation_order, reported,
                   pc, obj, cont, loc, now, ret, appended, committed, nUpd, ghostVars>>

\* the end of the second loop: the Registry's lock is released
EndSums ==
    /\ pc["main"] = "m_sums"
    /\ mi > Len(creation_order)
    /\ mlock' = "free"
    /\ mi' = 1
    /\ pc' = [pc EXCEPT !["main"] = "m_first"]
    /\ UNCHANGED <<objects_config, objects, creation_order, sum_generators, reported,
                   genVars, obj, cont, loc, now, ret, appended, committed, nUpd, lifeVars>>

\* a first_update() that sets the flag as start() does
FirstUpdateStarts(flag) == TRUE

\* first_update() is `self.update()` and nothing else: self.running keeps the
\* value the constructor gave it
FirstUpdateRunning(flag) == flag

\* the third loop: generator.first_update(), which is update()
FirstUpdate ==
    /\ pc["main"] = "m_first"
    /\ mi <= Len(sum_generators)
    /\ obj' = [obj EXCEPT !["main"] = sum_generators[mi]]
    /\ cont' = [cont EXCEPT !["main"] = "m_first"]
    /\ pc' = [pc EXCEPT !["main"] = "upd"]
    /\ mi' = mi + 1
    /\ first_updates' = [first_updates EXCEPT ![sum_generators[mi]] = @ + 1]
    /\ running' = [running EXCEPT ![sum_generators[mi]] = FirstUpdateRunning(@)]
    /\ UNCHANGED <<objects_config, objects, mlock, creation_order, sum_generators,
                   reported, genVars, loc, now, ret, appended, committed, nUpd,
                   thread, next_update_time, stops, nOps,
                   last_due>>

\* _create_objects_from_config returns: the Registry is built
Built ==
    /\ pc["main"] = "m_first"
    /\ mi > Len(sum_generators)
    /\ pc' = [pc EXCEPT !["main"] = "built"]
    /\ UNCHANGED <<regVars, genVars, obj, cont, loc, now, ret, appended, committed, nUpd, lifeVars>>

(* ---------------------- the callers of update() ----------------------- *)

\* a caller of generator.update() on a registered generator: the background
\* loop of the generator, or a manual trigger
CallUpdate(t, g, max) ==
    /\ pc["main"] = "built"
    /\ pc[t] = "idle"
    /\ g \in objects
    /\ nUpd < max
    /\ nUpd' = nUpd + 1
    /\ pc' = [pc EXCEPT ![t] = "upd"]
    /\ obj' = [obj EXCEPT ![t] = g]
    /\ cont' = [cont EXCEPT ![t] = "idle"]
    /\ loc' = [loc EXCEPT ![t] = Loc0]
    /\ UNCHANGED <<regVars, genVars, now, ret, appended, committed, lifeVars>>

\* update() raised to its caller
UpdateRaised(t) ==
    /\ pc[t] = "exc"
    /\ cont[t] = "idle"
    /\ pc' = [pc EXCEPT ![t] = "idle"]
    /\ UNCHANGED <<regVars, genVars, obj, cont, loc, now, ret, appended, committed, nUpd, lifeVars>>

(* ------------------- history counts and the facade -------------------- *)

\* OrderDataGenerator.get_history(count): `if count is None or count >=
\* len(self.history)` the whole history, otherwise self.history[-count:]
OrderHistoryPoints(h, count) ==
    IF ~count.given \/ count.n >= Len(h) THEN h ELSE PySliceFrom(h, 0 - count.n)

\* get_object_history: `if count is not None and count > 0:
\* history = history[-count:]`
FacadeSlice(list, count) ==
    IF count.given /\ count.n > 0 THEN PySliceFrom(list, 0 - count.n) ELSE list

\* the dicts get_history returns for the points: point.to_dict(), and for an
\* order generator the copy of the value with power_demand formatted
HistoryData(points, g) ==
    [i \in 1..Len(points) |->
        IF cls[g] = "order"
        THEN [ToDict(points[i]) EXCEPT !.value = Formatted(@, ConfigOf(g).unit)]
        ELSE ToDict(points[i])]

\* an accessor that formats the stored records themselves
StoredFormatted(h, unit) ==
    [i \in 1..Len(h) |-> [h[i] EXCEPT !.value = Formatted(@, unit)]]

\* the stored history after an accessor of an order generator has run:
\* `latest.value.copy()` and `data["value"].copy()` are what is formatted
StoredAfterRead(h, unit) == h

\* OrderDataGenerator.get_history(count), called on the generator
GetOrderHistory(g, count) ==
    /\ pc["main"] = "built"
    /\ g \in objects
    /\ cls[g] = "order"
    /\ ReaderEnters(g)
    /\ nOps < MaxOps
    /\ nOps' = nOps + 1
    /\ ret' = [op |-> "order_history", obj |-> g, value |-> None, timestamp |-> <<"None">>,
               list |-> HistoryData(OrderHistoryPoints(history[g], count), g),
               during |-> Updating(g), count |-> count]
    /\ history' = [history EXCEPT ![g] = StoredAfterRead(@, ConfigOf(g).unit)]
    /\ UNCHANGED <<regVars, cls, current_value, lock, current_index, last_change_time,
                   current_order_id, pc, obj, cont, loc, now, appended, committed, nUpd,
                   running, thread, next_update_time, first_updates, stops,
                   last_due>>

\* a request arrives at /api/data/{name}, /api/data/{name}/history or
\* /api/orders/{name}
FacadeCall(r, op, g, count) ==
    /\ pc["main"] = "built"
    /\ pc[r] = "idle"
    /\ op \in {"api_data", "api_history", "api_orders"}
    /\ op = "api_data" => count = NoCount
    /\ op = "api_orders" => count.given
    /\ nOps < MaxOps
    /\ nOps' = nOps + 1
    /\ pc' = [pc EXCEPT ![r] = "f_lookup"]
    /\ loc' = [loc EXCEPT ![r] = [Loc0 EXCEPT !.op = op, !.o = g, !.arg = count]]
    /\ UNCHANGED <<regVars, genVars, obj, cont, now, ret, appended, committed, nUpd,
                   running, thread, next_update_time, first_updates, stops,
                   last_due>>

\* generator = self.object_manager.get_object(name): the Registry's lock is
\* taken for the lookup; 404 for a name that is not registered, 400 from
\* /api/orders for a generator of another class
FacadeLookup(r) ==
    LET g == loc[r].o IN
    /\ pc[r] = "f_lookup"
    /\ mlock = "free"
    /\ IF g \notin objects
       THEN /\ ret' = [NoRet EXCEPT !.op = "404", !.obj = g]
            /\ pc' = [pc EXCEPT ![r] = "idle"]
       ELSE IF loc[r].op = "api_orders" /\ cls[g] # "order"
       THEN /\ ret' = [NoRet EXCEPT !.op = "400", !.obj = g]
            /\ pc' = [pc EXCEPT ![r] = "idle"]
       ELSE /\ pc' = [pc EXCEPT ![r] = "f_read"]
            /\ UNCHANGED ret
    /\ UNCHANGED <<regVars, genVars, obj, cont, loc, now, appended, committed, nUpd,
                   lifeVars>>

\* the accessor of the generator runs under the generator's lock:
\* get_current_data(), get_history(count) of an order generator, or
\* get_history() and the slice of the facade
FacadeRead(r) ==
    LET g == loc[r].o
        count == loc[r].arg
        data == CurrentData(history[g])
    IN
    /\ pc[r] = "f_read"
    /\ ReaderEnters(g)
    /\ ret' = IF loc[r].op = "api_data"
              THEN [op |-> "api_data", obj |-> g,
                    value |-> IF cls[g] = "order" /\ history[g] # <<>>
                              THEN Formatted(data.value, ConfigOf(g).unit)
                              ELSE data.value,
                    timestamp |-> data.timestamp, list |-> <<>>,
                    during |-> Updating(g), count |-> count]
              ELSE [op |-> loc[r].op, obj |-> g, value |-> None,
                    timestamp |-> <<"None">>,
                    list |-> IF cls[g] = "order"
                             THEN HistoryData(OrderHistoryPoints(history[g], count), g)
                             ELSE FacadeSlice(HistoryData(history[g], g), count),
                    during |-> Updating(g), count |-> count]
    /\ history' = [history EXCEPT ![g] =
                      IF cls[g] = "order" THEN StoredAfterRead(@, ConfigOf(g).unit) ELSE @]
    /\ pc' = [pc EXCEPT ![r] = "idle"]
    /\ UNCHANGED <<regVars, cls, current_value, lock, current_index, last_change_time,
                   current_order_id, obj, cont, loc, now, appended, committed, nUpd,
                   lifeVars>>

\* the keys of self.objects in the order of insertion
ObjectKeys ==
    SelectSeq([i \in 1..Len(non_sum_objects) |-> non_sum_objects[i].name],
              LAMBDA n : n \in objects)
        \o SelectSeq(creation_order, LAMBDA n : n \in objects)

\* get_all_current_data(): `with self.lock:`
FacadeAllBegin(r) ==
    /\ pc["main"] = "built"
    /\ pc[r] = "idle"
    /\ mlock = "free"
    /\ nOps < MaxOps
    /\ nOps' = nOps + 1
    /\ mlock' = r
    /\ pc' = [pc EXCEPT ![r] = "f_all"]
    /\ loc' = [loc EXCEPT ![r] = [Loc0 EXCEPT !.op = "api_all"]]
    /\ UNCHANGED <<objects_config, objects, creation_order, sum_generators, mi, reported,
                   genVars, obj, cont, now, ret, appended, committed, nUpd,
                   running, thread, next_update_time, first_updates, stops,
                   last_due>>

\* result[name] = generator.get_current_data(), the Registry's lock held
FacadeAllRead(r) ==
    /\ pc[r] = "f_all"
    /\ loc[r].k < Len(ObjectKeys)
    /\ LET g == ObjectKeys[loc[r].k + 1]
           data == CurrentData(history[g])
           value == IF cls[g] = "order" /\ history[g] # <<>>
                    THEN Formatted(data.value, ConfigOf(g).unit)
                    ELSE data.value
       IN  /\ ReaderEnters(g)
           /\ loc' = [loc EXCEPT ![r].k = @ + 1,
                                 ![r].seen = Append(@, [data EXCEPT !.value = value])]
           /\ history' = [history EXCEPT ![g] =
                             IF cls[g] = "order" THEN StoredAfterRead(@, ConfigOf(g).unit)
                             ELSE @]
    /\ UNCHANGED <<regVars, cls, current_value, lock, current_index, last_change_time,
                   current_order_id, pc, obj, cont, now, ret, appended, committed, nUpd,
                   lifeVars>>

\* the end of the `with self.lock:` block and `return result`
FacadeAllEnd(r) ==
    /\ pc[r] = "f_all"
    /\ loc[r].k >= Len(ObjectKeys)
    /\ mlock' = "free"
    /\ ret' = [NoRet EXCEPT !.op = "api_all", !.list = loc[r].seen]
    /\ pc' = [pc EXCEPT ![r] = "idle"]
    /\ loc' = [loc EXCEPT ![r] = Loc0]
    /\ UNCHANGED <<objects_config, objects, creation_order, sum_generators, mi, reported,
                   genVars, obj, cont, now, appended, committed, nUpd, lifeVars>>

FacadeStep(r) ==
    \/ \E op \in {"api_data", "api_history", "api_orders"}, g \in Configured \cup {"W"},
         count \in CountArgs :
          FacadeCall(r, op, g, count)
    \/ FacadeLookup(r) \/ FacadeRead(r)
    \/ FacadeAllBegin(r) \/ FacadeAllRead(r) \/ FacadeAllEnd(r)

(* --------------------- start, stop and the loops ---------------------- *)

\* "ctl" is the thread that uses the Registry once it is built: it starts and
\* stops the generators.  A thread of LoopThreads that is "idle" has not been
\* created yet.

\* generator.stop(), its first statement were it left out
StopLeavesRunning(flag) == flag

\* generator.stop(): self.running = False
StopClears(flag) == FALSE

\* generator.start(): self.running = True and a new daemon thread that runs
\* self._update_loop is put in self.thread and started
StartGenerator(g) ==
    \E l \in LoopThreads :
        /\ pc[l] = "idle"
        /\ running' = [running EXCEPT ![g] = TRUE]
        /\ thread' = [thread EXCEPT ![g] = l]
        /\ obj' = [obj EXCEPT ![l] = g]
        /\ cont' = [cont EXCEPT ![l] = "l_sleep"]
        /\ pc' = [pc EXCEPT ![l] = "l_check"]

\* generator.start() called on a registered generator
StartCall(c, g) ==
    /\ pc["main"] = "built"
    /\ pc[c] = "idle"
    /\ g \in objects
    /\ nOps < MaxLifeOps
    /\ nOps' = nOps + 1
    /\ StartGenerator(g)
    /\ UNCHANGED <<regVars, genVars, loc, now, ret, appended, committed, nUpd,
                   next_update_time, first_updates, stops,
                   last_due>>

\* generator.stop() called on a registered generator
StopCall(c, g) ==
    /\ pc["main"] = "built"
    /\ pc[c] = "idle"
    /\ g \in objects
    /\ nOps < MaxLifeOps
    /\ nOps' = nOps + 1
    /\ obj' = [obj EXCEPT ![c] = g]
    /\ cont' = [cont EXCEPT ![c] = "idle"]
    /\ pc' = [pc EXCEPT ![c] = "stop"]
    /\ UNCHANGED <<regVars, genVars, loc, now, ret, appended, committed, nUpd,
                   running, thread, next_update_time, first_updates, stops,
                   last_due>>

\* stop(): self.running = False; `if self.thread:` is false for a generator
\* that was never started, and stop() returns
StopFlag(c) ==
    LET g == obj[c] IN
    /\ pc[c] = "stop"
    /\ running' = [running EXCEPT ![g] = StopClears(@)]
    /\ IF thread[g] = "None"
       THEN /\ pc' = [pc EXCEPT ![c] = cont[c]]
            /\ stops' = [stops EXCEPT ![g] = @ + 1]
            /\ loc' = [loc EXCEPT ![c].out = "stopped"]
       ELSE /\ pc' = [pc EXCEPT ![c] = "join"]
            /\ UNCHANGED <<stops, loc>>
    /\ UNCHANGED <<regVars, genVars, obj, cont, now, ret, appended, committed, nUpd,
                   thread, next_update_time, first_updates, nOps,
                   last_due>>

\* a join() without a timeout returns only when the thread has ended
JoinWithoutTimeout(ended) == ended

\* self.thread.join(timeout=1.0) returns whether the thread has ended or not
JoinReturns(ended) == TRUE

\* stop(): self.thread.join(timeout=1.0) returns when the thread has ended,
\* and after the timeout when it has not
StopJoin(c) ==
    LET g == obj[c]
        ended == pc[thread[g]] \in {"l_dead", "l_died"}
    IN
    /\ pc[c] = "join"
    /\ JoinReturns(ended)
    /\ pc' = [pc EXCEPT ![c] = cont[c]]
    /\ stops' = [stops EXCEPT ![g] = @ + 1]
    /\ loc' = [loc EXCEPT ![c].out = IF ended THEN "joined" ELSE "timeout"]
    /\ UNCHANGED <<regVars, genVars, obj, cont, now, ret, appended, committed, nUpd,
                   running, thread, next_update_time, first_updates, nOps,
                   last_due>>

\* start_all(): `with self.lock:`
StartAllBegin(c) ==
    /\ pc["main"] = "built"
    /\ pc[c] = "idle"
    /\ mlock = "free"
    /\ nOps < MaxLifeOps
    /\ Cardinality({l \in LoopThreads : pc[l] = "idle"}) >= Len(ObjectKeys)
    /\ nOps' = nOps + 1
    /\ mlock' = c
    /\ pc' = [pc EXCEPT ![c] = "sa_loop"]
    /\ loc' = [loc EXCEPT ![c] = Loc0]
    /\ UNCHANGED <<objects_config, objects, creation_order, sum_generators, mi, reported,
                   genVars, obj, cont, now, ret, appended, committed, nUpd,
                   running, thread, next_update_time, first_updates, stops,
                   last_due>>

\* start_all(): generator.start() for the next generator
StartAllNext(c) ==
    /\ pc[c] = "sa_loop"
    /\ loc[c].k < Len(ObjectKeys)
    /\ StartGenerator(ObjectKeys[loc[c].k + 1])
    /\ loc' = [loc EXCEPT ![c].k = @ + 1]
    /\ UNCHANGED <<regVars, genVars, now, ret, appended, committed, nUpd,
                   next_update_time, ghostVars>>

\* the end of start_all() and of stop_all(): the Registry's lock is released
AllEnd(c) ==
    /\ pc[c] \in {"sa_loop", "so_loop"}
    /\ loc[c].k >= Len(ObjectKeys)
    /\ mlock' = "free"
    /\ pc' = [pc EXCEPT ![c] = "idle"]
    /\ loc' = [loc EXCEPT ![c] = [Loc0 EXCEPT !.out = IF pc[c] = "sa_loop" THEN "started"
                                                     ELSE "stopped_all"]]
    /\ UNCHANGED <<objects_config, objects, creation_order, sum_generators, mi, reported,
                   genVars, obj, cont, now, ret, appended, committed, nUpd, lifeVars>>

\* stop_all(): `with self.lock:`
StopAllBegin(c) ==
    /\ pc["main"] = "built"
    /\ pc[c] = "idle"
    /\ mlock = "free"
    /\ nOps < MaxLifeOps
    /\ nOps' = nOps + 1
    /\ mlock' = c
    /\ pc' = [pc EXCEPT ![c] = "so_loop"]
    /\ loc' = [loc EXCEPT ![c] = Loc0]
    /\ UNCHANGED <<objects_config, objects, creation_order, sum_generators, mi, reported,
                   genVars, obj, cont, now, ret, appended, committed, nUpd,
                   running, thread, next_update_time, first_updates, stops,
                   last_due>>

\* stop_all(): generator.stop() for the next generator
StopAllNext(c) ==
    /\ pc[c] = "so_loop"
    /\ loc[c].k < Len(ObjectKeys)
    /\ obj' = [obj EXCEPT ![c] = ObjectKeys[loc[c].k + 1]]
    /\ cont' = [cont EXCEPT ![c] = "so_loop"]
    /\ pc' = [pc EXCEPT ![c] = "stop"]
    /\ loc' = [loc EXCEPT ![c].k = @ + 1]
    /\ UNCHANGED <<regVars, genVars, now, ret, appended, committed, nUpd, lifeVars>>

\* a loop that calls update() in every iteration
AlwaysDue(g) == TRUE

\* OrderDataGenerator._update_loop: `if current_time >= self.next_update_time`;
\* the loops of the other classes call update() in every iteration
Due(g) == cls[g] # "order" \/ now >= next_update_time[g]

\* _update_loop: `while self.running:` and the call of self.update().  The
\* loop of an order generator reads the clock and calls update() only when
\* next_update_time has come.  The thread ends when it finds the flag cleared.
LoopCheck(l) ==
    LET g == obj[l]
        due == Due(g)
    IN
    /\ pc[l] = "l_check"
    /\ IF ~running[g]
       THEN /\ pc' = [pc EXCEPT ![l] = "l_dead"]
            /\ UNCHANGED <<loc, cont, nUpd>>
       ELSE IF due
       THEN /\ nUpd < MaxUpdates
            /\ nUpd' = nUpd + 1
            /\ pc' = [pc EXCEPT ![l] = "upd"]
            /\ cont' = [cont EXCEPT ![l] = IF cls[g] = "order" THEN "l_due" ELSE "l_sleep"]
            /\ loc' = [loc EXCEPT ![l] = [Loc0 EXCEPT !.t0 = now]]
       ELSE /\ pc' = [pc EXCEPT ![l] = "l_sleep"]
            /\ loc' = [loc EXCEPT ![l] = [Loc0 EXCEPT !.t0 = now]]
            /\ UNCHANGED <<cont, nUpd>>
    /\ last_due' = IF running[g] /\ due /\ cls[g] = "order"
                   THEN [last_due EXCEPT ![g] = now]
                   ELSE last_due
    /\ UNCHANGED <<regVars, genVars, obj, now, ret, appended, committed,
                   running, thread, next_update_time, first_updates, stops, nOps>>

\* OrderDataGenerator._update_loop: self.next_update_time = current_time +
\* random.uniform(self.interval_range[0], self.interval_range[1])
LoopDue(l) ==
    LET g == obj[l]
        c == ConfigOf(g)
    IN
    /\ pc[l] = "l_due"
    /\ \E interval \in Uniform(c.interval_range[1], c.interval_range[2]) :
          next_update_time' = [next_update_time EXCEPT ![g] = loc[l].t0 + interval]
    /\ pc' = [pc EXCEPT ![l] = "l_sleep"]
    /\ UNCHANGED <<regVars, genVars, obj, cont, loc, now, ret, appended, committed, nUpd,
                   running, thread, ghostVars>>

\* time.sleep(...) at the end of an iteration
LoopSleep(l) ==
    /\ pc[l] = "l_sleep"
    /\ pc' = [pc EXCEPT ![l] = "l_check"]
    /\ UNCHANGED <<regVars, genVars, obj, cont, loc, now, ret, appended, committed, nUpd,
                   lifeVars>>

\* update() raised inside _update_loop: nothing in the loop catches it, and
\* the thread ends with the exception
LoopDied(l) ==
    /\ l \in LoopThreads
    /\ pc[l] = "exc"
    /\ pc' = [pc EXCEPT ![l] = "l_died"]
    /\ UNCHANGED <<regVars, genVars, obj, cont, loc, now, ret, appended, committed, nUpd,
                   lifeVars>>

LoopStep(l) == LoopCheck(l) \/ LoopDue(l) \/ LoopSleep(l) \/ LoopDied(l)

StopStep(c) == StopFlag(c) \/ StopJoin(c)

(* -------------------------- specifications ---------------------------- *)

UpdateStep(t) ==
    \/ RandomRead(t) \/ RandomWrite(t)
    \/ StepCheckDwell(t) \/ StepSetTime(t) \/ StepCheckIndex(t)
    \/ StepLoadIndex(t) \/ StepStoreIndex(t) \/ StepValue(t) \/ StepRecord(t)
    \/ OrderUpdate(t)
    \/ SumBegin(t) \/ SumLookup(t) \/ SumRead(t) \/ SumRecord(t)
    \/ AppendPoint(t) \/ TrimHistory(t)

BuildStep ==
    \/ StartCreate \/ CreateNonSum \/ Register \/ CreateFailed \/ EndCreate
    \/ Resolve \/ CreateSum \/ EndSums \/ FirstUpdate \/ Built

\* Two concurrent callers of update().
Next ==
    \/ BuildStep
    \/ Tick
    \/ \E t \in Threads : UpdateStep(t)
    \/ \E t \in Workers : \E g \in Names : CallUpdate(t, g, MaxUpdates)
    \/ \E t \in Workers : UpdateRaised(t)

Spec == Init /\ [][Next]_vars

\* One caller of update() and the readers.
NextRead ==
    \/ BuildStep
    \/ Tick
    \/ \E t \in {"main", "t1"} : UpdateStep(t)
    \/ \E g \in Names : CallUpdate("t1", g, MaxUpdates)
    \/ \E g \in Names : GetCurrentData(g) \/ GetHistory(g)

SpecRead == Init /\ [][NextRead]_vars

\* One caller of update(), for longer.
NextSeq ==
    \/ BuildStep
    \/ Tick
    \/ \E t \in {"main", "t1"} : UpdateStep(t)
    \/ \E g \in Names : CallUpdate("t1", g, MaxSeqUpdates)

SpecSeq == Init /\ [][NextSeq]_vars

\* Aggregates: two concurrent callers of update() on the aggregates and their
\* sources.
InitSum == InitWith(AggregateConfigs)

SpecSum == InitSum /\ [][Next]_vars

\* The construction of the Registry alone.
NextReg ==
    \/ BuildStep
    \/ Tick
    \/ UpdateStep("main")

InitReg == InitWith(RegistryConfigs)

\* The constructor runs on the calling thread without waiting for anything
\* but locks it alone takes, so its steps are taken as long as one is possible.
SpecReg == InitReg /\ [][NextReg]_vars /\ WF_vars(BuildStep \/ UpdateStep("main"))

\* The facade: one thread that calls update(), sends a request or calls
\* get_history(count), one after the other.
FacadeConfigs ==
    { <<OrderCfg("A", 1000, <<1, 1>>, <<"bj">>, <<100, 100>>, "kW", 20)>>,
      <<OrderCfg("A", 1000, <<1, 1>>, <<"bj">>, <<100, 100>>, "", 2)>>,
      <<RandomCfg("A", 0, <<1, 1>>, 0, 5, 20)>>,
      <<StepCfg("A", <<1, 2>>, 0, TRUE, 2),
        OrderCfg("B", 1000, <<1, 1>>, <<>>, <<100, 100>>, "kW", 2),
        SumCfg("S", <<"A", "B">>, 2)>> }

InitFacade == InitWith(FacadeConfigs)

NextFacade ==
    \/ BuildStep
    \/ Tick
    \/ \E t \in {"main", "t1"} : UpdateStep(t)
    \/ \E g \in Names : CallUpdate("t1", g, MaxUpdates)
    \/ FacadeStep("t1")
    \/ \E g \in Names, count \in CountArgs : pc["t1"] = "idle" /\ GetOrderHistory(g, count)

SpecFacade == InitFacade /\ [][NextFacade]_vars

\* The background loops: generators started and stopped one by one, their
\* loops, and a manual trigger of update().
LoopConfigs ==
    { <<StepCfg("A", <<5, 6, 7>>, 0, FALSE, 3)>>,
      <<RandomCfg("A", 0, <<1, 1>>, 0, 3, 2)>>,
      <<[OrderCfg("A", 1000, <<1, 1>>, <<"bj">>, <<100, 100>>, "kW", 2)
            EXCEPT !.interval_range = <<1, 1>>]>>,
      <<OrderCfg("B", 1000, <<1, 1>>, <<>>, <<100, 100>>, "", 2),
        RandomCfg("A", 10, <<0, 0>>, 0 - Inf, Inf, 1), SumCfg("S", <<"A", "B">>, 2)>> }

InitLoop == InitWith(LoopConfigs)

NextLoop ==
    \/ BuildStep
    \/ Tick
    \/ \E t \in {"main", "t1"} \cup LoopThreads : UpdateStep(t)
    \/ \E g \in Names : CallUpdate("t1", g, MaxUpdates)
    \/ UpdateRaised("t1")
    \/ \E g \in Names : StartCall("ctl", g) \/ StopCall("ctl", g)
    \/ StopStep("ctl")
    \/ \E l \in LoopThreads : LoopStep(l)

SpecLoop == InitLoop /\ [][NextLoop]_vars

\* The locks: start_all() and stop_all(), the loops they start, and the
\* requests for one generator's data and for the data of all, on aggregates
\* that name each other or themselves.
LockConfigs ==
    { <<SumCfg("S", <<"T">>, 1), SumCfg("T", <<"S">>, 1)>>,
      <<RandomCfg("A", 10, <<0, 0>>, 0 - Inf, Inf, 1), SumCfg("S", <<"S", "A">>, 1)>>,
      <<StepCfg("A", <<1, 2>>, 0, TRUE, 1), OrderCfg("C", 1000, <<1, 1>>, <<>>, <<1, 1>>, "", 1)>>,
      <<OrderCfg("B", 1000, <<1, 1>>, <<"bj">>, <<1, 1>>, "", 1)>> }

InitLock == InitWith(LockConfigs)

NextLock ==
    \/ BuildStep
    \/ \E t \in {"main"} \cup LoopThreads : UpdateStep(t)
    \/ StartAllBegin("ctl") \/ StartAllNext("ctl")
    \/ StopAllBegin("ctl") \/ StopAllNext("ctl") \/ StopStep("ctl")
    \/ AllEnd("ctl")
    \/ \E l \in LoopThreads : LoopCheck(l) \/ LoopDue(l) \/ LoopSleep(l)
    \/ \E g \in Configured : FacadeCall("r1", "api_data", g, NoCount)
    \/ FacadeLookup("r1") \/ FacadeRead("r1")
    \/ FacadeAllBegin("r1") \/ FacadeAllRead("r1") \/ FacadeAllEnd("r1")

SpecLock == InitLock /\ [][NextLock]_vars

(* ---------------------------- properties ------------------------------ *)

RegistryBuilt == pc["main"] = "built"

Limit(g) == ConfigOf(g).history_limit

\* the last n elements of s, in order (all of s when it has fewer)
LastN(s, n) ==
    LET m == Min2(n, Len(s)) IN [i \in 1..m |-> s[Len(s) - m + i]]

Values(h) == [i \in 1..Len(h) |-> h[i].value]

Increasing(s) == \A i \in 1..(Len(s) - 1) : s[i] < s[i + 1]

\* C1: for every generator with history_limit > 0, whenever no update() is
\* inside its critical section the history holds at most history_limit points,
\* and they are the most recent appended points in the order of insertion.
C1_BoundedHistory ==
    \A g \in Names :
        (cls[g] # "none" /\ Limit(g) > 0 /\ lock[g] = "free")
        => /\ Len(history[g]) <= Limit(g)
           /\ history[g] = LastN(appended[g], Limit(g))

\* C1: concurrent updates have appended more points than the limit and the
\* oldest were dropped.
C1_Witness ==
    \E g \in Names :
        /\ cls[g] # "none" /\ Limit(g) > 0 /\ lock[g] = "free"
        /\ Len(appended[g]) > Limit(g)
        /\ Len(history[g]) = Limit(g)
        /\ nUpd = MaxUpdates

\* C2: every value a random-walk generator records is the clamped sum of the
\* value recorded before it (base_value for the first) and a change within
\* update_range, and current_value is the last recorded value.
C2_Serializable ==
    \A g \in Names :
        cls[g] = "random" =>
            LET c == ConfigOf(g)
                before(i) == IF i = 1 THEN c.base_value ELSE appended[g][i - 1].value.n
            IN  /\ \A i \in 1..Len(appended[g]) :
                     \E d \in Uniform(c.update_range[1], c.update_range[2]) :
                        appended[g][i].value.n = Clamp(c, before(i) + d)
                /\ (lock[g] = "free" /\ history[g] # <<>>)
                      => current_value[g] = Last(history[g]).value

\* what an accessor returns when it sees the history h of generator g
SnapshotOf(r, h, g) ==
    /\ r.op = "history" =>
          /\ Limit(g) > 0 => Len(r.list) <= Limit(g)
          /\ r.list = [i \in 1..Len(h) |-> ToDict(h[i])]
    /\ r.op = "current" =>
          IF h = <<>> THEN r.value = None /\ r.timestamp = <<"None">>
          ELSE /\ r.timestamp = <<"iso", Last(h).timestamp>>
               /\ [r.value EXCEPT !.fmt = ""] = Last(h).value

\* C3: what get_current_data() and get_history() return is the history as the
\* last completed update() left it: never more than history_limit points
\* (history_limit > 0), and the value and timestamp of its last point.
C3_ConsistentSnapshot ==
    [][\A g \in Names :
          (ret' # ret /\ ret'.obj = g) => SnapshotOf(ret', committed[g], g)]_vars

\* C3: an accessor returned the recorded point while an update() was under way.
C3_Witness ==
    /\ ret.op = "current"
    /\ ret.during
    /\ ret.value # None
    /\ pc["t1"] = "trim"
    /\ obj["t1"] = ret.obj

Cyclic == {"X", "Y", "Z"}

RECURSIVE NumericSum(_), NumericCount(_)
NumericSum(vs) ==
    IF vs = <<>> THEN 0
    ELSE (IF Head(vs).ty = "num" THEN Head(vs).n ELSE 0) + NumericSum(Tail(vs))
NumericCount(vs) ==
    IF vs = <<>> THEN 0
    ELSE (IF Head(vs).ty = "num" THEN 1 ELSE 0) + NumericCount(Tail(vs))

\* the configuration with the sources A = 10, B an order record, C = 5
Sources_10_dict_5 ==
    <<RandomCfg("A", 10, <<0, 0>>, -Inf, Inf, 1),
      OrderCfg("B", 1000, <<1, 1>>, <<"bj">>, <<100, 100>>, "", 1),
      RandomCfg("C", 5, <<0, 0>>, -Inf, Inf, 1),
      SumCfg("S", <<"A", "B", "C">>, 2)>>

\* C5: when a sum update() has gone through its sources it has seen one
\* snapshot per configured source (None for a name the Registry does not
\* hold), its total is the sum of the numeric ones and its count their number;
\* that total is what it records.  With A = 10, B an order record and C = 5
\* the count is 2 and every recorded total is 15.
C5_SumOfNumericSources ==
    /\ \A t \in Threads :
          /\ pc[t] = "u_record" =>
                /\ Len(loc[t].seen) = Len(ConfigOf(obj[t]).source_objects)
                /\ loc[t].total = NumericSum(loc[t].seen)
                /\ loc[t].count = NumericCount(loc[t].seen)
                /\ objects_config = Sources_10_dict_5 => loc[t].count = 2
          /\ (pc[t] = "append" /\ cls[obj[t]] = "sum") =>
                /\ loc[t].v = Num(NumericSum(loc[t].seen))
                /\ current_value[obj[t]] = loc[t].v
    /\ objects_config = Sources_10_dict_5 =>
          \A i \in 1..Len(appended["S"]) : appended["S"][i].value = Num(15)

\* C5: an update() of S saw 10, an order record and 5, and counted two.
C5_Witness ==
    \E t \in Workers :
        /\ objects_config = Sources_10_dict_5
        /\ pc[t] = "u_record"
        /\ loc[t].seen[1] = Num(10) /\ loc[t].seen[2].ty = "dict" /\ loc[t].seen[3] = Num(5)
        /\ loc[t].total = 15 /\ loc[t].count = 2

\* thread t takes a step of a sum update() other than the recording of a
\* total from at least one source
SumStepWithoutRecord(t) ==
    /\ pc[t] \in {"upd", "u_lookup", "u_read", "u_record"}
    /\ cls[obj[t]] = "sum"
    /\ pc'[t] # pc[t] \/ loc'[t] # loc[t]
    /\ ~(pc[t] = "u_record" /\ loc[t].count > 0)

\* C6: a sum update() in which no source counted appends nothing and leaves
\* current_value and history as they were; no point is ever appended by an
\* update() whose count is 0.
C6_NoPointFromZeroSources ==
    /\ [](\A t \in Threads :
            (pc[t] \in {"append", "trim"} /\ cls[obj[t]] = "sum") => loc[t].count > 0)
    /\ [][\A t \in Threads :
            SumStepWithoutRecord(t) =>
                /\ history' = history
                /\ current_value' = current_value
                /\ appended' = appended
                /\ (pc[t] = "u_record" => pc'[t] = cont[t])]_vars

\* C6: an update() of an aggregate returned without a counted source.
C6_Witness ==
    \E t \in Workers :
        /\ pc[t] = "idle" /\ loc[t].out = "skipped"
        /\ obj[t] \in Names
        /\ cls[obj[t]] = "sum"
        /\ history[obj[t]] = <<>>
        /\ current_value[obj[t]] = Num(0)

\* C7: a step generator with values [1, 2, 3], dwell_time 0 and loop false
\* has recorded exactly 1, 2, 3 after construction and three update() calls,
\* one after the other, and its current value is 3.
C7_StepSequence ==
    (/\ objects_config = <<StepCfg("A", <<1, 2, 3>>, 0, FALSE, 3)>>
     /\ RegistryBuilt /\ pc["t1"] = "idle" /\ nUpd >= 3)
    => /\ Values(history["A"]) = <<Num(1), Num(2), Num(3)>>
       /\ current_value["A"] = Num(3)

\* C8: in a step generator's history no two consecutive points have the
\* same value.
C8_NoConsecutiveDuplicates ==
    \A g \in Names :
        cls[g] = "step" =>
            \A i \in 1..(Len(history[g]) - 1) :
                history[g][i].value # history[g][i + 1].value

\* C8: an update() found the value unchanged and recorded nothing, in a
\* history that holds two points.
C8_Witness ==
    \E t \in Workers :
        /\ pc[t] = "idle" /\ loc[t].out = "skipped"
        /\ cls[obj[t]] = "step"
        /\ Len(history[obj[t]]) >= 2

\* C9: every value a random-walk generator records lies between min_value
\* and max_value.
C9_WithinBounds ==
    \A g \in Names :
        cls[g] = "random" =>
            \A i \in 1..Len(appended[g]) :
                /\ ConfigOf(g).min_value <= appended[g][i].value.n
                /\ appended[g][i].value.n <= ConfigOf(g).max_value

\* the order ids recorded by generator g, from order_id_base on
OrderIds(g) ==
    <<ConfigOf(g).order_id_base>>
        \o [i \in 1..Len(appended[g]) |-> appended[g][i].value.order_id]

\* C10 as stated: for every id_increment_range the order ids recorded, from
\* order_id_base on, are strictly increasing.
C10_StrictlyIncreasing ==
    \A g \in Names : cls[g] = "order" => Increasing(OrderIds(g))

\* C10: when the lower end of id_increment_range is at least 1, the order ids
\* recorded, from order_id_base on, are strictly increasing, in the history
\* too, and current_order_id is never below the last one recorded.
C10_IncreasingForPositiveRange ==
    \A g \in Names :
        (cls[g] = "order" /\ ConfigOf(g).id_increment_range[1] >= 1) =>
            /\ Increasing(OrderIds(g))
            /\ Increasing([i \in 1..Len(history[g]) |-> history[g][i].value.order_id])
            /\ current_order_id[g] >= Last(OrderIds(g))

\* C10: three orders recorded with increments drawn from [1, 2].
C10_Witness ==
    \E g \in Names :
        /\ cls[g] = "order"
        /\ ConfigOf(g).id_increment_range = <<1, 2>>
        /\ Len(appended[g]) = 3
        /\ lock[g] = "free"

\* C11: an order generator built with id_increment_range [1, 1] and
\* order_id_base 1000 has current_order_id 1003 once three update() calls
\* have returned.
C11_After3Updates ==
    \A g \in Names :
        (/\ cls[g] = "order"
         /\ ConfigOf(g).order_id_base = 1000
         /\ ConfigOf(g).id_increment_range = <<1, 1>>
         /\ RegistryBuilt /\ pc["t1"] = "idle" /\ nUpd = 3)
        => current_order_id[g] = 1003

\* an entry whose data_type is known and whose constructor does not raise: the
\* draws of an order generator's first update() need a non-empty range of
\* increments, of demands and a location
ValidEntry(c) ==
    /\ c.data_type \in {"random", "step", "order", "sum"}
    /\ c.data_type = "order" =>
          /\ c.id_increment_range[1] <= c.id_increment_range[2]
          /\ c.power_demand_range[1] <= c.power_demand_range[2]
          /\ c.locations # <<>>

C16_HistoryCount ==
    [][(ret' # ret /\ ret'.op \in {"order_history", "api_history", "api_orders"}) =>
          LET g == ret'.obj
              h == history[g]
              c == ret'.count
              expected == IF c.given /\ 0 < c.n /\ c.n < Len(h) THEN LastN(h, c.n) ELSE h
          IN  ret'.list = HistoryData(expected, g)]_vars

\* a step of an accessor: a result is returned, or a request moves on
ReadStep ==
    \/ ret' # ret
    \/ \E t \in Threads :
          /\ pc[t] \in {"f_lookup", "f_read", "f_all"}
          /\ pc'[t] # pc[t] \/ loc'[t] # loc[t]

\* C17: every record an order generator stores keeps a numeric power_demand,
\* and no step of get_current_data() or get_history(), called directly or
\* through the facade, changes a history or a current_order_id.
C17_ReadsLeaveStored ==
    /\ [](\A g \in Names :
            cls[g] = "order" =>
                \A i \in 1..Len(history[g]) :
                    history[g][i].value.ty = "dict" /\ history[g][i].value.fmt = "")
    /\ [][ReadStep =>
            /\ history' = history
            /\ current_order_id' = current_order_id
            /\ current_value' = current_value]_vars

\* C17: after two reads of an order generator with unit "kW" the returned
\* record carries the formatted power_demand and the stored one the number.
C17_Witness ==
    /\ nOps = MaxOps
    /\ ret.op \in {"order_history", "api_history", "api_orders"}
    /\ ret.list # <<>>
    /\ ret.list[1].value.fmt = "kW"
    /\ history[ret.obj] # <<>>
    /\ history[ret.obj][1].value.fmt = ""
    /\ history[ret.obj][1].value.pd = 100

NonDecreasing(s) == \A i \in 1..(Len(s) - 1) : s[i] <= s[i + 1]

Timestamps(h) == [i \in 1..Len(h) |-> h[i].timestamp]

\* C18: in every generator the timestamps of the points, in the order in which
\* they were appended, never decrease; so do those of the history kept.
C18_TimestampsNonDecreasing ==
    \A g \in Names :
        /\ NonDecreasing(Timestamps(appended[g]))
        /\ NonDecreasing(Timestamps(history[g]))

\* C18: two workers have updated a generator while the clock advanced, and
\* its history holds points of two different times.
C18_Witness ==
    \E g \in Names :
        /\ nUpd = MaxUpdates
        /\ \A t \in Workers : pc[t] = "idle"
        /\ Len(history[g]) >= 2
        /\ history[g][1].timestamp < Last(history[g]).timestamp

\* the aggregates that aggregate n names as sources
SumSources(n) == Range(ConfigOf(n).source_objects) \cap SumNames

\* the aggregates reached from the set s in at most k steps along source_objects
RECURSIVE ReachedFrom(_, _)
ReachedFrom(s, k) ==
    IF k = 0 THEN s
    ELSE ReachedFrom(s \cup UNION {SumSources(n) : n \in s}, k - 1)

\* no aggregate is, directly or through other aggregates, a source of itself
AcyclicConfig ==
    \A n \in SumNames : n \notin ReachedFrom(SumSources(n), Cardinality(SumNames))

\* C19: with an acyclic configuration an aggregate is in the Registry only
\* when every aggregate it names as a source is; and no generator of another
\* class is put in the Registry once an aggregate is in it.
C19_TopologicalOrder ==
    /\ [](AcyclicConfig =>
            \A n \in objects \cap SumNames : SumSources(n) \subseteq objects)
    /\ [][\A n \in objects' \ objects :
            n \notin SumNames => objects \cap SumNames = {}]_vars

\* C19: the diamond X -> [Y, Z], Y -> [W], Z -> [W] partly built: W and Y
\* are created, X is still to come.
C19_Witness ==
    /\ AcyclicConfig
    /\ SumNames = {"X", "Y", "Z", "W"}
    /\ creation_order = <<"W", "Y", "Z", "X">>
    /\ {"W", "Y"} \subseteq objects
    /\ "X" \notin objects

\* a step of a stop() call of thread c
StopTakesStep(c) == pc[c] \in {"stop", "join"} /\ pc'[c] # pc[c]

\* C12: a stop() call always has a step to take, none of its steps changes a
\* history or a current value, and when it returns, without an exception, the
\* generator's running flag is cleared: also for a generator that was never
\* started and for one that is stopped already.
C12_StopIdempotent ==
    /\ [](pc["ctl"] \in {"stop", "join"} => ENABLED StopStep("ctl"))
    /\ [][StopTakesStep("ctl") =>
            /\ history' = history
            /\ current_value' = current_value
            /\ pc'["ctl"] \in {"join", cont["ctl"]}
            /\ pc'["ctl"] = cont["ctl"] =>
                  /\ ~running'[obj["ctl"]]
                  /\ stops'[obj["ctl"]] = stops[obj["ctl"]] + 1]_vars

\* C12: a generator was started and then stopped twice, both calls returned,
\* and its loop has ended.
C12_Witness ==
    \E g \in Names :
        /\ stops[g] = 2
        /\ thread[g] # "None"
        /\ pc[thread[g]] = "l_dead"
        /\ pc["ctl"] = "idle"
        /\ ~running[g]

\* C12: a generator that was never started was stopped twice.
C12_NeverStarted ==
    \E g \in Names :
        /\ stops[g] = 2
        /\ thread[g] = "None"
        /\ pc["ctl"] = "idle"
        /\ ~running[g]

\* C13: no background loop ends because an update() raised: a thread that
\* start() created ends only by finding the running flag cleared.
C13_LoopSurvives ==
    \A l \in LoopThreads : pc[l] # "l_died"

\* the steps thread t can take in its current position
ThreadStep(t) ==
    \/ t = "main" /\ BuildStep
    \/ UpdateStep(t)
    \/ LoopCheck(t) \/ LoopDue(t) \/ LoopSleep(t)
    \/ StartAllNext(t) \/ StopAllNext(t) \/ StopStep(t) \/ AllEnd(t)
    \/ FacadeLookup(t) \/ FacadeRead(t) \/ FacadeAllRead(t) \/ FacadeAllEnd(t)

\* the positions in which a thread asks for the Registry's lock, and those in
\* which it asks for a generator's lock
RegistryLockPcs == {"m_start", "m_resolve", "u_lookup", "f_lookup"}
GeneratorLockPcs == {"upd", "r_lock", "s_lock", "trim", "u_read", "u_record", "f_read", "f_all"}

\* thread t is waiting for a lock that another thread (or itself) holds
Waiting(t) == pc[t] \in RegistryLockPcs \cup GeneratorLockPcs /\ ~ENABLED ThreadStep(t)

\* C14: no thread waits for a lock in a cycle.  A thread that waits holds no
\* generator's lock, and a thread that waits while it holds the Registry's
\* lock waits for a generator's lock: every chain of waiting threads ends,
\* after at most two links, at a thread that can run.
C14_NoLockCycle ==
    \A t \in Threads :
        Waiting(t) =>
            /\ \A g \in Names : lock[g] # t
            /\ mlock = t => pc[t] \in GeneratorLockPcs

\* the data of all generators is being read under the Registry's lock and
\* the next generator's lock is held by its loop, which is updating it, while
\* an aggregate's loop waits for the Registry's lock
C14_Witness ==
    /\ Waiting("r1")
    /\ mlock = "r1"
    /\ \E l \in LoopThreads : pc[l] = "u_lookup" /\ Waiting(l)
    /\ \E l \in LoopThreads : \E g \in Names : lock[g] = l

\* every generator the configuration can give has been created: each entry
\* that is not an aggregate and can be constructed, and each aggregate of the
\* creation list
AllCreated ==
    /\ \A c \in Range(non_sum_objects) : ValidEntry(c) => c.name \in objects
    /\ \A n \in Range(creation_order) : n \in objects

Aggregates == {g \in objects : cls[g] = "sum"}

\* C20: first_update() is called only on created aggregates and only when
\* every generator has been created, no generator is created after it, no
\* aggregate gets it twice, and when the Registry is built every aggregate has
\* had it once, with running false and no thread.
C20_FirstUpdateOnce ==
    /\ [](\A g \in Names :
             /\ first_updates[g] <= 1
             /\ first_updates[g] = 1 => g \in Aggregates /\ AllCreated /\ mlock = "free")
    /\ [][(\E g \in Names : first_updates[g] = 1) => objects' = objects]_vars
    /\ [](RegistryBuilt =>
             \A g \in Aggregates :
                 first_updates[g] = 1 /\ ~running[g] /\ thread[g] = "None")

\* a Registry built with an aggregate of an aggregate, both updated once
C20_Witness ==
    /\ RegistryBuilt
    /\ \E g, h \in Aggregates :
          /\ g # h
          /\ h \in Range(ConfigOf(g).source_objects)
          /\ first_updates[g] = 1 /\ first_updates[h] = 1
          /\ ~running[g] /\ thread[g] = "None"
          /\ history[g] # <<>>

\* the Registry is inside first_update() of aggregate g
InFirstUpdate(g) ==
    /\ cont["main"] = "m_first"
    /\ obj["main"] = g
    /\ pc["main"] \in {"upd", "u_lookup", "u_read", "u_record"}

\* C21: whenever the Registry runs first_update() on an aggregate, every
\* other aggregate it names as a source already holds at least one recorded
\* point.  Stated for the configurations without a cycle, where the sources
\* of an aggregate have had their first_update() before it.
C21_SourcesHaveHistory ==
    AcyclicConfig =>
        \A g \in Names :
            InFirstUpdate(g) =>
                \A h \in Range(ConfigOf(g).source_objects) \ {g} :
                    h \in Aggregates => history[h] # <<>>

\* Shutdown: start_all() once, then stop_all(), with every thread scheduled:
\* a thread that can take its next step takes it in the end.
StopConfigs ==
    { <<RandomCfg("A", 10, <<0, 0>>, 0 - Inf, Inf, 1), SumCfg("S", <<"A">>, 1)>>,
      <<StepCfg("A", <<1, 2>>, 0, TRUE, 1), OrderCfg("C", 1000, <<1, 1>>, <<>>, <<1, 1>>, "", 1)>>,
      <<OrderCfg("B", 1000, <<1, 1>>, <<"bj">>, <<1, 1>>, "", 1)>> }

InitStop == InitWith(StopConfigs)

NextStop ==
    \/ BuildStep
    \/ \E t \in {"main"} \cup LoopThreads : UpdateStep(t)
    \/ nOps = 0 /\ StartAllBegin("ctl")
    \/ StartAllNext("ctl")
    \/ StopAllBegin("ctl") \/ StopAllNext("ctl") \/ StopStep("ctl")
    \/ AllEnd("ctl")
    \/ \E l \in LoopThreads : LoopCheck(l) \/ LoopDue(l) \/ LoopSleep(l)

SpecStop ==
    /\ InitStop /\ [][NextStop]_vars
    /\ \A t \in LoopThreads \cup {"ctl"} : WF_vars(pc[t] # "idle" /\ ThreadStep(t))

\* thread l runs a loop that has not ended
LoopLive(l) == pc[l] \notin {"idle", "l_dead", "l_died"}

LoopEnded(l) == pc[l] \in {"l_dead", "l_died"}

\* the running flag of the generator whose loop thread l runs
LoopFlag(l) == obj[l] \in Names /\ running[obj[l]]

\* C22: a loop whose generator has the running flag cleared ends, unless a
\* start() sets the flag again; and stop() and stop_all() return.
C22_StopEndsLoops ==
    /\ \A l \in LoopThreads :
          (LoopLive(l) /\ ~LoopFlag(l)) ~> (LoopEnded(l) \/ LoopFlag(l))
    /\ (pc["ctl"] \in {"stop", "join"}) ~> (pc["ctl"] = "so_loop")
    /\ (pc["ctl"] = "so_loop") ~> (pc["ctl"] = "idle" /\ loc["ctl"].out = "stopped_all")

\* stop_all() has returned for two started generators, and both loops have
\* found their flag cleared and ended
C22_Witness ==
    /\ pc["ctl"] = "idle"
    /\ loc["ctl"].out = "stopped_all"
    /\ Cardinality(objects) = 2
    /\ \A g \in objects : ~running[g] /\ stops[g] >= 1
    /\ \A l \in LoopThreads : pc[l] = "l_dead"

\* C23: a random generator whose configuration has min_value > max_value is
\* not created: its name is never registered.
C23_InvertedBoundsRejected ==
    \A c \in Range(objects_config) :
        (c.data_type = "random" /\ c.min_value > c.max_value) => c.name \notin objects

\* The order loop against the clock: start_all() once, the loops, the clock.
DueConfigs ==
    { <<[OrderCfg("B", 1000, <<1, 1>>, <<"bj">>, <<1, 1>>, "", 2)
            EXCEPT !.interval_range = <<1, 2>>]>>,
      <<RandomCfg("A", 10, <<0, 0>>, 0 - Inf, Inf, 1), SumCfg("S", <<"A">>, 1)>>,
      <<StepCfg("A", <<1, 2>>, 0, TRUE, 1), OrderCfg("C", 1000, <<1, 1>>, <<>>, <<1, 1>>, "", 1)>> }

InitDue == InitWith(DueConfigs)

NextDue ==
    \/ BuildStep
    \/ Tick
    \/ \E t \in {"main"} \cup LoopThreads : UpdateStep(t)
    \/ nOps = 0 /\ StartAllBegin("ctl")
    \/ StartAllNext("ctl")
    \/ StopAllBegin("ctl") \/ StopAllNext("ctl") \/ StopStep("ctl")
    \/ AllEnd("ctl")
    \/ \E l \in LoopThreads : LoopCheck(l) \/ LoopDue(l) \/ LoopSleep(l)

SpecDue == InitDue /\ [][NextDue]_vars

\* thread l runs the loop of an order generator
OrderLoop(l) == obj[l] \in Names /\ cls[obj[l]] = "order"

\* interval_range[0] of generator g
IntervalLo(g) == ConfigOf(g).interval_range[1]

\* C24: the order loop calls update() only in an iteration whose time has
\* reached next_update_time, and then at least interval_range[0] after the
\* iteration of its previous call; next_update_time changes only after such
\* a call, to that iteration's time plus an interval of interval_range; an
\* iteration that is not due goes to sleep and changes nothing; and after
\* every sleep the running flag is tested again.
C24_OrderLoopDue ==
    [][\A l \in LoopThreads :
          /\ (OrderLoop(l) /\ pc[l] = "l_check" /\ pc'[l] = "upd") =>
                /\ now >= next_update_time[obj[l]]
                /\ last_due[obj[l]] >= 0 => now >= last_due[obj[l]] + IntervalLo(obj[l])
                /\ last_due'[obj[l]] = now
          /\ (OrderLoop(l) /\ pc[l] = "l_check" /\ pc'[l] # pc[l]
                /\ running[obj[l]] /\ now < next_update_time[obj[l]]) =>
                /\ pc'[l] = "l_sleep"
                /\ history' = history
                /\ next_update_time' = next_update_time
          /\ (OrderLoop(l) /\ next_update_time'[obj[l]] # next_update_time[obj[l]]) =>
                /\ pc[l] = "l_due" /\ pc'[l] = "l_sleep"
                /\ loc[l].t0 = last_due[obj[l]]
                /\ next_update_time'[obj[l]] - loc[l].t0
                      \in Uniform(IntervalLo(obj[l]), ConfigOf(obj[l]).interval_range[2])
          /\ (OrderLoop(l) /\ pc[l] = "l_sleep" /\ pc'[l] # pc[l]) => pc'[l] = "l_check"
          /\ (OrderLoop(l) /\ pc[l] = "l_check" /\ pc'[l] # pc[l] /\ ~running[obj[l]]) =>
                pc'[l] = "l_dead"]_vars

\* the loop has made its second call of update(), an interval after the first
C24_Witness ==
    \E l \in LoopThreads :
        /\ OrderLoop(l)
        /\ pc[l] = "upd"
        /\ nUpd = 2
        /\ last_due[obj[l]] >= 1
        /\ Len(appended[obj[l]]) = 2

\* C25: the index of a step generator with values stays inside the list:
\* 0 <= current_index <= len(values) - 1.
C25_IndexInRange ==
    \A g \in Names :
        (cls[g] = "step" /\ ConfigOf(g).values # <<>>) =>
            /\ 0 <= current_index[g]
            /\ current_index[g] <= Len(ConfigOf(g).values) - 1

\* start() and stop() on single generators, start() only on a generator
\* whose running flag is cleared.
NextRestart ==
    \/ BuildStep
    \/ \E t \in {"main"} \cup LoopThreads : UpdateStep(t)
    \/ \E g \in Names : ~running[g] /\ StartCall("ctl", g)
    \/ \E g \in Names : StopCall("ctl", g)
    \/ StopStep("ctl")
    \/ \E l \in LoopThreads : LoopCheck(l) \/ LoopDue(l) \/ LoopSleep(l)

SpecRestart == InitStop /\ [][NextRestart]_vars

\* the loops of generator g that have not ended
LiveLoops(g) == {l \in LoopThreads : obj[l] = g /\ LoopLive(l)}

\* C26: a generator whose running flag is set has at most one loop that has
\* not ended.
C26_OneLoop ==
    \A g \in Names : running[g] => Cardinality(LiveLoops(g)) <= 1

\* stop_all() has returned and nothing has been called since
StopAllReturned == pc["ctl"] = "idle" /\ loc["ctl"].out = "stopped_all"

\* C27: once stop_all() has returned, no history and no current value
\* changes.
C27_QuietAfterStopAll ==
    [][StopAllReturned => history' = history /\ current_value' = current_value]_vars

\* the dependency analysis is done: creation_order is computed
Resolved == pc["main"] \in {"m_sums", "m_first", "built"}

NoDuplicates(s) == \A i, j \in 1..Len(s) : i # j => s[i] # s[j]

\* C28: the dependency analysis comes to an end for every configuration,
\* with cycles and self-references too; the creation order it gives has no
\* name twice and has every aggregate; and for a configuration without a
\* cycle, the diamond among them, no cycle is reported.
C28_ResolutionEnds ==
    /\ [](Resolved =>
            /\ NoDuplicates(creation_order)
            /\ Range(creation_order) = SumNames
            /\ AcyclicConfig => reported = <<>>)
    /\ (pc["main"] = "m_resolve") ~> Resolved

\* the diamond X -> [Y, Z], Y -> [W], Z -> [W] resolved: W once, before Y and
\* Z, and nothing reported
C28_Witness ==
    /\ pc["main"] = "m_sums"
    /\ mi = 1
    /\ SumNames = {"X", "Y", "Z", "W"}
    /\ SumSources("X") = {"Y", "Z"} /\ SumSources("Y") = {"W"} /\ SumSources("Z") = {"W"}
    /\ creation_order = <<"W", "Y", "Z", "X">>
    /\ reported = <<>>

=============================================================================
